---- MODULE Spec2Model ----
(***************************************************************************)
(* thirdparty/imgui_suite/generate_gl3w.py: the gl3w launcher.             *)
(*                                                                         *)
(* main(argv) resolves the script's directory, parses the optional         *)
(* --output_directory, appends <script_dir>/gl3w to sys.path, creates the  *)
(* output directory (pathlib mkdir, parents=True, exist_ok=True), changes  *)
(* the working directory to it and imports gl3w_gen.                       *)
(*                                                                         *)
(* The file system is shared by every process; sys.path, sys.modules and   *)
(* the working directory are per process.  Path.mkdir is modelled at the   *)
(* granularity of its system calls (os.mkdir, stat), one call per step.    *)
(*                                                                         *)
(* A text path is [abs, segs]: the text is "/" (when abs) followed by the  *)
(* segments joined with "/"; an empty segment stands for a doubled or      *)
(* trailing slash.  A pathlib Path is [abs, parts].  A node of the file    *)
(* system is the sequence of names leading to it from the root.            *)
(***************************************************************************)
EXTENDS Naturals, Sequences, FiniteSets

VARIABLES
  dirs,       \* nodes that are directories
  files,      \* nodes that are non-directories
  readonly,   \* directories in which no entry can be created (no write permission)
  sealed,     \* directories that cannot be searched or entered (no search permission)
  modDirs,    \* directories holding gl3w_gen.py
  generated,  \* directories into which the generator body has written its files
  pc,         \* per process: position in main()
  argv,       \* per process: argument vector of the current call
  fileAttr,   \* per process: __file__, a text path
  dirname,    \* per process: main's local dirname (a Path)
  outdir,     \* per process: args.output_directory (a Path)
  cwd,        \* per process: working directory (a node)
  sysPath,    \* per process: sys.path, the entries added on top of the interpreter's
  sysModules, \* per process: gl3w_gen is in sys.modules
  stack,      \* per process: the active Path.mkdir frames, innermost last
  status,     \* per process: exit status of the current call, NoStatus while it runs
  calls,      \* per process: main() calls started so far
  hist        \* per process: what the current call has done so far (for the properties)

vars == <<dirs, files, readonly, sealed, modDirs, generated, pc, argv, fileAttr,
          dirname, outdir, cwd, sysPath, sysModules, stack, status, calls, hist>>

fsVars == <<dirs, files, readonly, sealed, modDirs>>

----------------------------------------------------------------------------
(* Bounds *)

MaxCalls == 2   \* main() calls per process in Spec
MaxSegs  == 3   \* segments of a supplied text path in SpecArgs
MaxOpts  == 2   \* occurrences of --output_directory in SpecArgs

----------------------------------------------------------------------------
(* Paths: pathlib's parsing, str(), parent and the / operator *)

Root == <<>>

\* The value of a local that has not been assigned yet.
NoPath == [abs |-> FALSE, parts |-> <<"?">>]

Segs == {"a", "b", ".", "..", ""}

RECURSIVE SeqsUpTo(_, _)
SeqsUpTo(S, n) ==
  IF n = 0 THEN {<<>>}
  ELSE LET shorter == SeqsUpTo(S, n - 1)
       IN  shorter \cup {Append(q, x) : q \in {r \in shorter : Len(r) = n - 1}, x \in S}

Text(a, s) == [abs |-> a, segs |-> s]

KeptSegment(s) == s # "" /\ s # "."

PathDropsNothing(text) == [abs |-> text.abs, parts |-> text.segs]

\* Path(text): empty and "." segments are dropped, ".." is kept, nothing is resolved.
PathOf(text) == [abs |-> text.abs, parts |-> SelectSeq(text.segs, KeptSegment)]

\* str(path): the relative path without parts prints as ".".
StrOf(path) ==
  IF ~path.abs /\ path.parts = <<>> THEN Text(FALSE, <<".">>)
  ELSE Text(path.abs, path.parts)

Front(s) == SubSeq(s, 1, Len(s) - 1)

Last(s) == s[Len(s)]

\* path.parent: lexical; the root and the empty relative path are their own parent.
ParentOf(path) ==
  IF path.parts = <<>> THEN path
  ELSE [abs |-> path.abs, parts |-> Front(path.parts)]

\* path / text
Join(path, text) ==
  IF text.abs THEN PathOf(text)
  ELSE [abs |-> path.abs, parts |-> path.parts \o PathOf(text).parts]

----------------------------------------------------------------------------
(* The file system: name resolution and the system calls the launcher makes *)

ScriptDir == <<"s">>

\* One symbolic link, /l -> /s: the script can be started through it.
Links == [n \in {<<"l">>} |-> ScriptDir]

Follow(n) == IF n \in DOMAIN Links THEN Links[n] ELSE n

Exists(n) == n \in dirs \cup files

Start(c, path) == IF path.abs THEN Root ELSE c

\* One step of name resolution from node n, as the kernel does it.
Lookup(n, comp) ==
  IF n \notin dirs THEN [err |-> "ENOTDIR", node |-> n]
  ELSE IF n \in sealed THEN [err |-> "EACCES", node |-> n]
  ELSE IF comp = ".." THEN [err |-> "ok", node |-> IF n = Root THEN Root ELSE Front(n)]
  ELSE LET child == Follow(Append(n, comp))
       IN  IF Exists(child) THEN [err |-> "ok", node |-> child]
           ELSE [err |-> "ENOENT", node |-> child]

RECURSIVE WalkFrom(_, _)
WalkFrom(n, parts) ==
  IF parts = <<>> THEN [err |-> "ok", node |-> n]
  ELSE LET r == Lookup(n, parts[1])
       IN  IF r.err # "ok" THEN r ELSE WalkFrom(r.node, Tail(parts))

Walk(c, path) == WalkFrom(Start(c, path), path.parts)

\* The node a path names from working directory c, whether or not it exists yet.
RECURSIVE DenoteFrom(_, _)
DenoteFrom(n, parts) ==
  IF parts = <<>> THEN n
  ELSE DenoteFrom(IF parts[1] = ".." THEN (IF n = Root THEN Root ELSE Front(n))
                  ELSE Follow(Append(n, parts[1])),
                  Tail(parts))

Denote(c, path) == DenoteFrom(Start(c, path), path.parts)

\* os.mkdir(path) issued in working directory c: the result and the node it creates.
SysMkdir(c, path) ==
  IF path.parts = <<>> THEN [err |-> "EEXIST", node |-> Start(c, path)]
  ELSE LET w == WalkFrom(Start(c, path), Front(path.parts))
           last == Last(path.parts)
           child == Append(w.node, last)
       IN  IF w.err # "ok" THEN w
           ELSE IF w.node \notin dirs THEN [err |-> "ENOTDIR", node |-> w.node]
           ELSE IF w.node \in sealed THEN [err |-> "EACCES", node |-> w.node]
           ELSE IF last = ".." THEN [err |-> "EEXIST", node |-> w.node]
           ELSE IF child \in DOMAIN Links \/ Exists(child)
                THEN [err |-> "EEXIST", node |-> child]
           ELSE IF w.node \in readonly THEN [err |-> "EACCES", node |-> child]
           ELSE [err |-> "ok", node |-> child]

SysIsDirExists(c, path) == IF Walk(c, path).err = "ok" THEN "yes" ELSE "no"

SysIsDirAlways(c, path) == "yes"

\* Path.is_dir(): "yes", "no", or "raise" (errors other than a missing or
\* non-directory component are not swallowed).
SysIsDir(c, path) ==
  LET w == Walk(c, path)
  IN  IF w.err = "EACCES" THEN "raise"
      ELSE IF w.err = "ok" /\ w.node \in dirs THEN "yes"
      ELSE "no"

SysChdirStays(c, path) == [err |-> "ok", node |-> c]

\* os.chdir(path)
SysChdir(c, path) ==
  LET w == Walk(c, path)
  IN  IF w.err # "ok" THEN w
      ELSE IF w.node \notin dirs THEN [err |-> "ENOTDIR", node |-> w.node]
      ELSE IF w.node \in sealed THEN [err |-> "EACCES", node |-> w.node]
      ELSE w

\* The names inside directory d: its children and, once written, the generated files.
Entries(d) ==
  {n \in dirs \cup files : Len(n) = Len(d) + 1 /\ SubSeq(n, 1, Len(d)) = d}
    \cup (IF d \in generated THEN {<<"generated files">>} ELSE {})

Prefixes(n) == {SubSeq(n, 1, k) : k \in 0..Len(n)}

----------------------------------------------------------------------------
(* Inputs *)

Opts(vals) == [kind |-> "opts", vals |-> vals]

\* The argument vectors of the full model: no option, the option with an absolute
\* and with relative values, a value with ".." after a name, -h, and a stray word.
Argvs ==
  { Opts(<<>>),
    Opts(<<Text(TRUE, <<"a", "b">>)>>),
    Opts(<<Text(FALSE, <<"a", "b">>)>>),
    Opts(<<Text(FALSE, <<"b">>)>>),
    Opts(<<Text(TRUE, <<"a">>)>>),
    Opts(<<Text(FALSE, <<"a", "b", "..">>)>>),
    [kind |-> "help", vals |-> <<>>],
    [kind |-> "bad", vals |-> <<>>] }

\* The argument vectors of SpecArgs: at most MaxOpts occurrences of the option, the
\* last value any text path of at most MaxSegs segments; -h; a stray word.
\* The first segment is never empty: a text is not read as starting with "//".
TextPaths ==
  {Text(a, s) : a \in BOOLEAN, s \in {q \in SeqsUpTo(Segs, MaxSegs) : q = <<>> \/ q[1] # ""}}

\* Values of the occurrences before the last one.
EarlierVals == {Text(TRUE, <<"b">>), Text(FALSE, <<"..", "">>)}

AllArgvs ==
  {Opts(<<>>), [kind |-> "help", vals |-> <<>>], [kind |-> "bad", vals |-> <<>>]}
    \cup {Opts(Append(pre, v)) : pre \in SeqsUpTo(EarlierVals, MaxOpts - 1), v \in TextPaths}

\* __file__: the script's real location, or its location through the link.
FileAttrs == { Text(TRUE, <<"s", "generate_gl3w.py">>),
               Text(TRUE, <<"l", "generate_gl3w.py">>) }

NoStatus == "running"

NoNode == <<"?">>

AllSteps == <<"parse", "path", "mkdir", "chdir", "import">>

\* What a call has done so far.  bodyRuns and bodyDone count the executions of the
\* generator's module body, started and completed, over all calls of the process.
NewHist(c, runs, done) ==
  [startCwd |-> c, target |-> NoNode, existed |-> FALSE, resolved |-> FALSE,
   entries0 |-> {}, dirs0 |-> {}, trace |-> <<>>, imported |-> "no",
   pathAtImport |-> <<>>, cwdAtImport |-> NoNode, genAtImport |-> {}, raced |-> FALSE,
   bodyRuns |-> runs, bodyDone |-> done]

----------------------------------------------------------------------------
(* Initial states *)

Gl3wDir == <<"s", "gl3w">>

\* The environments: the script's directory always exists; gl3w, generated, /a and
\* /a/b may be missing, directories or (generated, /a) plain files; /a may be
\* read-only or sealed.
Envs ==
  { [d |-> {Root, ScriptDir} \cup sd \cup ad, f |-> sf \cup af, ro |-> ro, se |-> se,
     m |-> m] :
      sd \in { {}, {Gl3wDir}, {<<"s", "generated">>, <<"s", "generated", "gl3w">>},
               {Gl3wDir, <<"s", "generated">>, <<"s", "generated", "gl3w">>} },
      sf \in { {}, {<<"s", "generated">>} },
      ad \in { {}, {<<"a">>}, {<<"a">>, <<"a", "b">>} },
      af \in { {}, {<<"a">>} },
      ro \in { {}, {<<"a">>} },
      se \in { {}, {<<"a">>} },
      m  \in { {}, {Gl3wDir} } }

WellFormed(e) ==
  /\ e.d \cap e.f = {}
  /\ \A n \in e.d \cup e.f : n # Root => Front(n) \in e.d
  /\ e.ro \subseteq e.d
  /\ e.se \subseteq e.d
  /\ e.ro \cap e.se = {}
  /\ e.m \subseteq e.d

InitEnv(e) ==
  /\ dirs = e.d
  /\ files = e.f
  /\ readonly = e.ro
  /\ sealed = e.se
  /\ modDirs = e.m
  /\ generated = {}

StartDirs(e) == {Root} \cup {n \in {<<"a">>} : n \in e.d /\ n \notin e.se}

InitProcs(P, position, n) ==
  /\ pc = [p \in P |-> position]
  /\ dirname = [p \in P |-> NoPath]
  /\ outdir = [p \in P |-> NoPath]
  /\ sysPath = [p \in P |-> <<>>]
  /\ sysModules = [p \in P |-> FALSE]
  /\ stack = [p \in P |-> <<>>]
  /\ status = [p \in P |-> NoStatus]
  /\ calls = [p \in P |-> n]
  /\ hist = [p \in P |-> NewHist(cwd[p], 0, 0)]

\* One process, not yet in main().
Init ==
  \E e \in {x \in Envs : WellFormed(x)} :
    /\ InitEnv(e)
    /\ cwd \in [{1} -> StartDirs(e)]
    /\ fileAttr \in [{1} -> FileAttrs]
    /\ argv = [p \in {1} |-> Opts(<<>>)]
    /\ InitProcs({1}, "idle", 0)

----------------------------------------------------------------------------
(* main(argv), one statement (or one system call of Path.mkdir) per step *)

Did(p, step) == [hist EXCEPT ![p].trace = Append(@, step)]

RaiseSwallowed(p, code) ==
  /\ pc' = [pc EXCEPT ![p] = "done"]
  /\ status' = [status EXCEPT ![p] = "exit 0"]
  /\ stack' = [stack EXCEPT ![p] = <<>>]

\* An uncaught exception leaves main(): exit status 1 (2 from argparse's error()).
Raise(p, code) ==
  /\ pc' = [pc EXCEPT ![p] = "failed"]
  /\ status' = [status EXCEPT ![p] = code]
  /\ stack' = [stack EXCEPT ![p] = <<>>]

\* main(argv) is entered (again) in process p.
Call(p) ==
  /\ pc[p] \in {"idle", "done", "failed"}
  /\ calls[p] < MaxCalls
  /\ \E a \in Argvs : argv' = [argv EXCEPT ![p] = a]
  /\ calls' = [calls EXCEPT ![p] = @ + 1]
  /\ pc' = [pc EXCEPT ![p] = "parse"]
  /\ status' = [status EXCEPT ![p] = NoStatus]
  /\ dirname' = [dirname EXCEPT ![p] = NoPath]
  /\ outdir' = [outdir EXCEPT ![p] = NoPath]
  /\ hist' = [hist EXCEPT ![p] = NewHist(cwd[p], @.bodyRuns, @.bodyDone)]
  /\ UNCHANGED <<fsVars, generated, fileAttr, cwd, sysPath, sysModules, stack>>

\* Path(__file__).resolve(): absolute, links followed.
Resolve(text) == [abs |-> TRUE, parts |-> Denote(Root, PathOf(text))]

DefaultSubdir == Text(FALSE, <<"generated", "gl3w">>)

\* parser.parse_args(argv).output_directory for an argv that parses: the default, or
\* the last occurrence's value converted by type=Path.
ParseArgs(a, default) ==
  IF a.vals = <<>> THEN default ELSE PathOf(Last(a.vals))

\* script_path, dirname, the parser and parse_args.
Parse(p) ==
  /\ pc[p] = "parse"
  /\ LET dn == ParentOf(Resolve(fileAttr[p]))
     IN  /\ dirname' = [dirname EXCEPT ![p] = dn]
         /\ \/ /\ argv[p].kind = "opts"
               /\ LET od == ParseArgs(argv[p], Join(dn, DefaultSubdir))
                      t == Denote(cwd[p], od)
                  IN  /\ outdir' = [outdir EXCEPT ![p] = od]
                      /\ hist' = [hist EXCEPT ![p].trace = Append(@, "parse"),
                                              ![p].target = t,
                                              ![p].existed = (t \in dirs),
                                              ![p].resolved = (Walk(cwd[p], od).err = "ok"),
                                              ![p].dirs0 = dirs,
                                              ![p].entries0 = Entries(t)]
               /\ pc' = [pc EXCEPT ![p] = "path"]
               /\ UNCHANGED <<status, stack>>
            \/ /\ argv[p].kind = "help"
               /\ pc' = [pc EXCEPT ![p] = "done"]
               /\ status' = [status EXCEPT ![p] = "exit 0"]
               /\ UNCHANGED <<outdir, hist, stack>>
            \/ /\ argv[p].kind = "bad"
               /\ Raise(p, "exit 2")
               /\ UNCHANGED <<outdir, hist>>
  /\ UNCHANGED <<fsVars, generated, argv, fileAttr, cwd, sysPath, sysModules, calls>>

AppendPathSkips(p) ==
  /\ pc[p] = "path"
  /\ hist' = Did(p, "path")
  /\ pc' = [pc EXCEPT ![p] = "mkdirCall"]
  /\ UNCHANGED <<fsVars, generated, argv, fileAttr, dirname, outdir, cwd, sysPath,
                 sysModules, stack, status, calls>>

\* sys.path.append(str(dirname / "gl3w"))
AppendPath(p) ==
  /\ pc[p] = "path"
  /\ sysPath' = [sysPath EXCEPT
                   ![p] = Append(@, StrOf(Join(dirname[p], Text(FALSE, <<"gl3w">>))))]
  /\ hist' = Did(p, "path")
  /\ pc' = [pc EXCEPT ![p] = "mkdirCall"]
  /\ UNCHANGED <<fsVars, generated, argv, fileAttr, dirname, outdir, cwd,
                 sysModules, stack, status, calls>>

Frame(path, parents, existOk, phase) ==
  [path |-> path, parents |-> parents, existOk |-> existOk, phase |-> phase]

MkdirCallNotExistOk(p) ==
  /\ pc[p] = "mkdirCall"
  /\ stack' = [stack EXCEPT ![p] = <<Frame(outdir[p], TRUE, FALSE, "try")>>]
  /\ pc' = [pc EXCEPT ![p] = "mkdir"]
  /\ UNCHANGED <<fsVars, generated, argv, fileAttr, dirname, outdir, cwd, sysPath,
                 sysModules, status, calls, hist>>

\* args.output_directory.mkdir(parents=True, exist_ok=True) is entered.
MkdirCall(p) ==
  /\ pc[p] = "mkdirCall"
  /\ stack' = [stack EXCEPT ![p] = <<Frame(outdir[p], TRUE, TRUE, "try")>>]
  /\ pc' = [pc EXCEPT ![p] = "mkdir"]
  /\ UNCHANGED <<fsVars, generated, argv, fileAttr, dirname, outdir, cwd, sysPath,
                 sysModules, status, calls, hist>>

Top(p) == Last(stack[p])

\* A Path.mkdir frame returns: the outermost one ends the statement; one called for
\* a parent hands over to the caller, which calls self.mkdir(mode, parents=False,
\* exist_ok=exist_ok).
Return(p, h) ==
  LET rest == Front(stack[p])
  IN  IF rest = <<>>
      THEN /\ stack' = [stack EXCEPT ![p] = <<>>]
           /\ pc' = [pc EXCEPT ![p] = "chdir"]
           /\ hist' = [h EXCEPT ![p].trace = Append(@, "mkdir")]
      ELSE /\ stack' = [stack EXCEPT
                          ![p] = Append(Front(rest),
                                        Frame(Last(rest).path, FALSE, Last(rest).existOk, "try"))]
           /\ pc' = pc
           /\ hist' = h

\* try: os.mkdir(self, mode), and the two except clauses' first decisions.
OsMkdir(p) ==
  /\ pc[p] = "mkdir"
  /\ Top(p).phase = "try"
  /\ LET f == Top(p)
         r == SysMkdir(cwd[p], f.path)
     IN  \/ /\ r.err = "ok"
            /\ dirs' = dirs \cup {r.node}
            /\ Return(p, hist)
            /\ UNCHANGED status
         \/ /\ r.err = "ENOENT"
            /\ UNCHANGED dirs
            /\ IF ~f.parents \/ ParentOf(f.path) = f.path
               THEN Raise(p, "exit 1") /\ UNCHANGED hist
               ELSE /\ stack' = [stack EXCEPT
                                   ![p] = Front(@) \o
                                          << [f EXCEPT !.phase = "retry"],
                                             Frame(ParentOf(f.path), TRUE, TRUE, "try") >>]
                    /\ UNCHANGED <<pc, status, hist>>
         \/ /\ r.err \notin {"ok", "ENOENT"}
            /\ UNCHANGED dirs
            /\ IF ~f.existOk
               THEN Raise(p, "exit 1") /\ UNCHANGED hist
               ELSE /\ stack' = [stack EXCEPT ![p] = Front(@) \o << [f EXCEPT !.phase = "isdir"] >>]
                    /\ hist' = [hist EXCEPT ![p].raced =
                                  @ \/ (r.err = "EEXIST" /\ r.node \notin hist[p].dirs0
                                        /\ r.node \in dirs /\ f.path.parts # <<>>
                                        /\ Last(f.path.parts) # "..")]
                    /\ UNCHANGED <<pc, status>>
  /\ UNCHANGED <<files, readonly, sealed, modDirs, generated, argv, fileAttr, dirname,
                 outdir, cwd, sysPath, sysModules, calls>>

\* except OSError: if not exist_ok or not self.is_dir(): raise
IsDirCheck(p) ==
  /\ pc[p] = "mkdir"
  /\ Top(p).phase = "isdir"
  /\ IF SysIsDir(cwd[p], Top(p).path) = "yes"
     THEN Return(p, hist) /\ UNCHANGED status
     ELSE Raise(p, "exit 1") /\ UNCHANGED hist
  /\ UNCHANGED <<fsVars, generated, argv, fileAttr, dirname, outdir, cwd, sysPath,
                 sysModules, calls>>

\* os.chdir(args.output_directory)
Chdir(p) ==
  /\ pc[p] = "chdir"
  /\ LET r == SysChdir(cwd[p], outdir[p])
     IN  IF r.err = "ok"
         THEN /\ cwd' = [cwd EXCEPT ![p] = r.node]
              /\ pc' = [pc EXCEPT ![p] = "import"]
              /\ hist' = Did(p, "chdir")
              /\ UNCHANGED <<status, stack>>
         ELSE /\ Raise(p, "exit 1")
              /\ UNCHANGED <<cwd, hist>>
  /\ UNCHANGED <<fsVars, generated, argv, fileAttr, dirname, outdir, sysPath,
                 sysModules, calls>>

FoundAlways(p) == TRUE

\* The import system's path search: some sys.path entry is a directory holding
\* gl3w_gen.py.
Found(p) ==
  \E i \in DOMAIN sysPath[p] :
    LET w == Walk(cwd[p], PathOf(sysPath[p][i]))
    IN  w.err = "ok" /\ w.node \in modDirs

Attempt(p, how) ==
  [hist EXCEPT ![p].trace = Append(@, "import"), ![p].imported = how,
               ![p].pathAtImport = sysPath[p], ![p].cwdAtImport = cwd[p],
               ![p].genAtImport = generated,
               ![p].bodyRuns = @ + (IF how \in {"ran", "raised"} THEN 1 ELSE 0),
               ![p].bodyDone = @ + (IF how = "ran" THEN 1 ELSE 0)]

\* The module body of gl3w_gen runs in the working directory: it writes its files
\* there and the module stays in sys.modules, or it raises and the module is dropped.
GenBody(p) ==
  \/ /\ cwd[p] \notin readonly
     /\ generated' = generated \cup {cwd[p]}
     /\ sysModules' = [sysModules EXCEPT ![p] = TRUE]
     /\ hist' = Attempt(p, "ran")
     /\ pc' = [pc EXCEPT ![p] = "done"]
     /\ status' = [status EXCEPT ![p] = "exit 0"]
     /\ UNCHANGED stack
  \/ /\ hist' = Attempt(p, "raised")
     /\ Raise(p, "exit 1")
     /\ UNCHANGED <<generated, sysModules>>

ImportNoCache(p) ==
  /\ pc[p] = "import"
  /\ \/ /\ ~Found(p)
        /\ hist' = Attempt(p, "missing")
        /\ Raise(p, "exit 1")
        /\ UNCHANGED <<generated, sysModules>>
     \/ /\ Found(p)
        /\ GenBody(p)
  /\ UNCHANGED <<fsVars, argv, fileAttr, dirname, outdir, cwd, sysPath, calls>>

\* import gl3w_gen: nothing to do when the module is in sys.modules; otherwise the
\* module is searched for and its body executed.
Import(p) ==
  /\ pc[p] = "import"
  /\ \/ /\ sysModules[p]
        /\ hist' = Attempt(p, "cached")
        /\ pc' = [pc EXCEPT ![p] = "done"]
        /\ status' = [status EXCEPT ![p] = "exit 0"]
        /\ UNCHANGED <<generated, sysModules, stack>>
     \/ /\ ~sysModules[p]
        /\ ~Found(p)
        /\ hist' = Attempt(p, "missing")
        /\ Raise(p, "exit 1")
        /\ UNCHANGED <<generated, sysModules>>
     \/ /\ ~sysModules[p]
        /\ Found(p)
        /\ GenBody(p)
  /\ UNCHANGED <<fsVars, argv, fileAttr, dirname, outdir, cwd, sysPath, calls>>

Run(p) ==
  \/ Parse(p)
  \/ AppendPath(p)
  \/ MkdirCall(p)
  \/ OsMkdir(p)
  \/ IsDirCheck(p)
  \/ Chdir(p)
  \/ Import(p)

Next == \E p \in {1} : Call(p) \/ Run(p)

Spec == Init /\ [][Next]_vars

\* Argument handling alone: one call, already entered, over every argument vector.
InitArgs ==
  /\ InitEnv([d |-> {Root, ScriptDir}, f |-> {}, ro |-> {}, se |-> {}, m |-> {}])
  /\ cwd = [p \in {1} |-> Root]
  /\ fileAttr \in [{1} -> FileAttrs]
  /\ argv \in [{1} -> AllArgvs]
  /\ InitProcs({1}, "parse", MaxCalls)

NextArgs == \E p \in {1} : Parse(p)

SpecArgs == InitArgs /\ [][NextArgs]_vars

\* Two launcher processes started with the same arguments in the same directory,
\* each running main() once, their steps interleaved in every order.
InitConc ==
  \E e \in {x \in Envs : WellFormed(x)} :
    /\ InitEnv(e)
    /\ \E c \in StartDirs(e) : cwd = [p \in {1, 2} |-> c]
    /\ \E f \in FileAttrs : fileAttr = [p \in {1, 2} |-> f]
    /\ \E a \in Argvs : argv = [p \in {1, 2} |-> a]
    /\ InitProcs({1, 2}, "parse", MaxCalls)

NextConc == \E p \in {1, 2} : Run(p)

SpecConc == InitConc /\ [][NextConc]_vars

----------------------------------------------------------------------------
(* Properties *)

Procs == DOMAIN pc

InTrace(p, step) == \E i \in DOMAIN hist[p].trace : hist[p].trace[i] = step

IsPrefix(s, t) == Len(s) <= Len(t) /\ SubSeq(t, 1, Len(s)) = s

Supplied(p) == argv[p].kind = "opts" /\ argv[p].vals # <<>>

Parsed(p) == pc[p] = "path"

DefaultDir == [abs |-> TRUE, parts |-> <<"s", "generated", "gl3w">>]

Dropped(s) == s \in {"", "."}

C2_ImportInOutputDirectory ==
  \A p \in Procs :
    /\ pc[p] = "import" => cwd[p] = hist[p].target
    /\ hist[p].imported # "no" => hist[p].cwdAtImport = hist[p].target

C2_Witness ==
  \E p \in Procs :
    /\ hist[p].imported # "no"
    /\ hist[p].target # hist[p].startCwd
    /\ hist[p].cwdAtImport = hist[p].target

\* C3: when the output directory did not exist at launch and the mkdir statement has
\* completed, the directory and every ancestor of it are directories.
C3_CreatedWithParents ==
  \A p \in Procs :
    (~hist[p].existed /\ InTrace(p, "mkdir")) =>
      \A n \in Prefixes(hist[p].target) : n \in dirs

C3_Witness ==
  \E p \in Procs :
    /\ ~hist[p].existed
    /\ InTrace(p, "mkdir")
    /\ Len(hist[p].target) >= 2
    /\ Front(hist[p].target) \notin hist[p].dirs0
    /\ hist[p].target \in dirs

MkdirRaised(p) == pc[p] = "failed" /\ hist[p].trace = <<"parse", "path">>

\* C4 as stated: an output directory that exists at launch makes mkdir succeed and
\* has the same entries when the import is attempted.
C4_ExistingUntouched ==
  \A p \in Procs :
    hist[p].existed =>
      /\ ~MkdirRaised(p)
      /\ pc[p] = "import" => Entries(hist[p].target) = hist[p].entries0

\* C4, amended: when the output path, as written, resolves at launch to a directory
\* (every component of it exists and can be searched), mkdir does not raise and the
\* directory has the same entries when the import is attempted.
C4_ResolvableUntouched ==
  \A p \in Procs :
    (hist[p].existed /\ hist[p].resolved) =>
      /\ ~MkdirRaised(p)
      /\ pc[p] = "import" => Entries(hist[p].target) = hist[p].entries0

C4_Witness ==
  \E p \in Procs :
    /\ hist[p].existed
    /\ hist[p].resolved
    /\ hist[p].entries0 # {}
    /\ pc[p] = "import"

\* C5: when no directory holds gl3w_gen and the import has been attempted, the call
\* has failed with status 1, the output directory is still a directory and the
\* working directory is still the output directory.
C5_MissingGeneratorNoRollback ==
  \A p \in Procs :
    (modDirs = {} /\ InTrace(p, "import")) =>
      /\ pc[p] = "failed"
      /\ status[p] = "exit 1"
      /\ hist[p].imported = "missing"
      /\ hist[p].target \in dirs
      /\ cwd[p] = hist[p].target

C5_Witness ==
  \E p \in Procs :
    /\ modDirs = {}
    /\ InTrace(p, "import")
    /\ ~hist[p].existed
    /\ cwd[p] # hist[p].startCwd

\* What makes the creation of target t fail: a non-directory on the way or in its
\* place, a sealed directory on the way, or a read-only directory where a missing
\* component has to be created.
Blocked(p) ==
  LET t == hist[p].target
  IN  /\ t # NoNode
      /\ \/ \E n \in Prefixes(t) : n \in files
         \/ \E n \in Prefixes(t) : n # t /\ n \in sealed
         \/ \E k \in 1..Len(t) :
              SubSeq(t, 1, k) \notin hist[p].dirs0 /\ SubSeq(t, 1, k - 1) \in readonly

\* C6: when the creation of the output directory fails, the call ends failed, the
\* mkdir statement never completes, the working directory is the one the call
\* started in and the import is never attempted.
C6_MkdirFailureAborts ==
  \A p \in Procs :
    Blocked(p) =>
      /\ pc[p] \notin {"chdir", "import", "done"}
      /\ ~InTrace(p, "mkdir")
      /\ cwd[p] = hist[p].startCwd
      /\ hist[p].imported = "no"
      /\ pc[p] = "failed" => status[p] = "exit 1" /\ MkdirRaised(p)

C6_Witness ==
  \E p \in Procs : Blocked(p) /\ MkdirRaised(p) /\ hist[p].target \notin files

Terminal(p) == pc[p] \in {"done", "failed"}

Completed(p) == hist[p].trace = AllSteps /\ hist[p].imported \in {"ran", "cached"}

C7_Shape(p) ==
  /\ IsPrefix(hist[p].trace, AllSteps)
  /\ Terminal(p) <=> status[p] # NoStatus
  /\ pc[p] = "done" <=> status[p] = "exit 0"
  /\ pc[p] = "failed" <=> status[p] \in {"exit 1", "exit 2"}
  /\ pc[p] \in {"idle", "parse", "path", "mkdirCall", "mkdir", "chdir", "import",
                "done", "failed"}
  /\ IF pc[p] = "mkdir"
     THEN stack[p] # <<>> /\ Top(p).phase \in {"try", "isdir"}
     ELSE stack[p] = <<>>

\* No step of main() can be taken once the call has ended.
C7_Stopped(p) == Terminal(p) => ~ENABLED Run(p)

\* C7 as stated: a call is one pass through the steps, each at most once and none
\* after the call has ended; it ends in exactly one of success (status 0) and failure
\* (status not 0), and in success exactly when parsing, directory creation, the
\* change of directory and the import all completed.
C7_SuccessIffAllSteps ==
  \A p \in Procs :
    C7_Shape(p) /\ C7_Stopped(p) /\ (status[p] = "exit 0" <=> Completed(p))

\* C7, amended: as stated, except that a call also ends with status 0 when the
\* arguments ask for help (-h): parse_args prints the usage and exits with 0 before
\* any other step has run.
C7_SuccessIffAllStepsOrHelp ==
  \A p \in Procs :
    /\ C7_Shape(p)
    /\ C7_Stopped(p)
    /\ status[p] = "exit 0" <=>
         \/ Completed(p)
         \/ Terminal(p) /\ argv[p].kind = "help" /\ hist[p].trace = <<>>

C7_Witness ==
  \E p \in Procs :
    /\ calls[p] = 2
    /\ status[p] = "exit 0"
    /\ Completed(p)
    /\ hist[p].imported = "ran"
    /\ ~hist[p].existed

Sibling == Text(TRUE, <<"s", "gl3w">>)

OnPath(path) == \E i \in DOMAIN path : path[i] = Sibling

\* C8 as stated: the steps run in the order create, change directory, extend the
\* search path, import, and the sibling directory is on the search path when the
\* import is attempted.
C8_PathAfterChdir ==
  \A p \in Procs :
    /\ IsPrefix(hist[p].trace, <<"parse", "mkdir", "chdir", "path", "import">>)
    /\ hist[p].imported # "no" => OnPath(hist[p].pathAtImport)

\* C8, amended: the steps run in the order extend the search path, create, change
\* directory, import: the sibling directory <script_dir>/gl3w is on the search path
\* before the directory is created and still when the import is attempted.
C8_PathBeforeMkdir ==
  \A p \in Procs :
    /\ IsPrefix(hist[p].trace, <<"parse", "path", "mkdir", "chdir", "import">>)
    /\ pc[p] \in {"mkdirCall", "mkdir", "chdir", "import"} => OnPath(sysPath[p])
    /\ hist[p].imported # "no" => OnPath(hist[p].pathAtImport)

C8_Witness ==
  \E p \in Procs :
    /\ hist[p].imported = "ran"
    /\ OnPath(hist[p].pathAtImport)
    /\ fileAttr[p].segs[1] = "l"
    /\ hist[p].trace = <<"parse", "path", "mkdir", "chdir", "import">>

\* C9 as stated: over the calls of one process the generator's module body executes
\* at most once.
C9_BodyAtMostOnce == \A p \in Procs : hist[p].bodyRuns <= 1

\* C9, amended: over the calls of one process the generator's module body runs to
\* completion at most once, and after that it is not executed again: a later call
\* appends the sibling directory again, creates its output directory, changes to it
\* and ends with status 0, its import served from sys.modules without writing any
\* generated file.  A body that raised is not cached: it is executed again by the
\* next call that reaches the import.
C9_BodyCompletesOnce ==
  \A p \in Procs :
    /\ hist[p].bodyDone <= 1
    /\ sysModules[p] <=> hist[p].bodyDone = 1
    /\ hist[p].imported = "cached" =>
         /\ hist[p].bodyDone = 1
         /\ pc[p] = "done" /\ status[p] = "exit 0"
         /\ hist[p].trace = AllSteps
         /\ hist[p].target \in dirs
         /\ cwd[p] = hist[p].target
         /\ Len(sysPath[p]) >= 2 /\ \A i \in DOMAIN sysPath[p] : sysPath[p][i] = Sibling
         /\ generated = hist[p].genAtImport
    /\ hist[p].imported \in {"missing", "raised"} => ~sysModules[p]

C9_Witness ==
  \E p \in Procs :
    /\ hist[p].imported = "cached"
    /\ ~hist[p].existed
    /\ hist[p].target \notin generated
    /\ hist[p].target # hist[p].startCwd

\* The nodes the output path passes through, from the working directory the call
\* started in.
Visited(p) ==
  {DenoteFrom(Start(hist[p].startCwd, outdir[p]), SubSeq(outdir[p].parts, 1, k)) :
     k \in 0..Len(outdir[p].parts)}

Unobstructed(p) ==
  \A n \in Visited(p) : n \notin files /\ n \notin readonly /\ n \notin sealed

SameFreshTarget ==
  /\ \A p \in Procs : hist[p].target # NoNode /\ ~hist[p].existed /\ Unobstructed(p)
  /\ \A p, q \in Procs : hist[p].target = hist[q].target

\* C10: two processes with the same output directory, missing at launch and with
\* nothing but missing directories in the way: under every interleaving neither
\* fails in mkdir, and each reaches the change of directory with the directory
\* (and its ancestors) existing.
C10_ConcurrentMkdir ==
  SameFreshTarget =>
    \A p \in Procs :
      /\ ~MkdirRaised(p)
      /\ InTrace(p, "mkdir") => \A n \in Prefixes(hist[p].target) : n \in dirs

C10_Witness ==
  /\ SameFreshTarget
  /\ \A p \in Procs : InTrace(p, "chdir")
  /\ \E p \in Procs : hist[p].raced
  /\ \E p \in Procs : Front(hist[p].target) \notin hist[p].dirs0

====
